---- MODULE Spec2Model ----
(***************************************************************************)
(* StatefullMarkdownCell (renderers/markdownCell.ts): the controller of    *)
(* one notebook markdown cell.  It switches the cell between the rendered  *)
(* preview and a lazily created CodeEditorWidget, resolves the editor's    *)
(* text model asynchronously and reports the cell height to the notebook   *)
(* editor.                                                                 *)
(*                                                                         *)
(* JavaScript handlers run to completion, so every handler is one action.  *)
(* The only suspension point is the promise returned by                    *)
(* raceCancellation(viewCell.resolveTextModel(), cts.token); its           *)
(* continuation is the action ResolveTextModelThen.                        *)
(*                                                                         *)
(* An optional value (T | null | undefined) is a set with at most one      *)
(* element: {} is "absent", {v} is "v".                                    *)
(***************************************************************************)
EXTENDS Integers, Sequences, FiniteSets, TLC

\* ------------------------------------------------------------------------
\* Bounds of the model (inputs the environment may supply)

\* viewCell.lineCount ranges over 0..MaxLines
MaxLines == 2

\* widths the host reports through getListDimension()
ListWidths == {248}

\* cellContainer.clientWidth as measured when there is no list dimension
ClientWidths == {324}

\* widths the resize observer of the editing container reports
ObservedWidths == {250}

\* line heights the host reports through getFontInfo()
LineHeights == {20}

\* measured heights of the rendered markdown node
PreviewHeights == {40, 50}

\* content heights the CodeEditorWidget measures once it has a model
ContentHeights == {34, 60}

\* ------------------------------------------------------------------------
\* Program constants

\* notebookCommon.CELL_MARGIN
CELL_MARGIN == 24

\* notebookCommon.EDITOR_TOP_PADDING
EDITOR_TOP_PADDING == 8

\* notebookCommon.EDITOR_BOTTOM_PADDING
EDITOR_BOTTOM_PADDING == 8

\* `getFontInfo()?.lineHeight ?? 18`
DefaultLineHeight == 18

\* "for scrollbar and margin right"
ScrollbarAllowance == 24

\* the fixed chrome allowance added to every editing-mode height
ChromeHeight == 32

\* CodeEditorWidget.getContentHeight() while the widget has no model
NoModelContentHeight == 0 - 1

\* ------------------------------------------------------------------------
\* State

VARIABLES
    isEditing,         \* viewCell.isEditing
    lineCount,         \* viewCell.lineCount
    attached,          \* the viewCell has a text editor attached (active-editor slot)
    editor,            \* this.editor: "null" or "widget"
    editorsCreated,    \* number of createInstance(CodeEditorWidget, ...) calls so far
    editorDisposed,    \* the CodeEditorWidget has been disposed
    editorModel,       \* the CodeEditorWidget has a text model (setModel was called)
    editorLayout,      \* the dimension the CodeEditorWidget was last laid out to
    contentHeight,     \* CodeEditorWidget.getContentHeight()
    display,           \* editingContainer.style.display
    clientHeight,      \* cellContainer.clientHeight
    localDisposables,  \* members of this.localDisposables, in the order they were added
    disposed,          \* the Disposable base class has been disposed (this._store)
    cts,               \* the CancellationTokenSource: "none", "live" or "cancelled"
    resolution,        \* the promise of resolveTextModel(): "none", "pending" or "settled"
    resolveCalls,      \* number of viewCell.resolveTextModel() calls so far
    closure,           \* width and totalHeight captured by the callbacks of the creating viewUpdate
    lastReport,        \* the height of the last notebookEditor.layoutNotebookCell call, if any
    lastOp             \* the handler that ran last: its name, its inputs and its effects in order

vars == << isEditing, lineCount, attached, editor, editorsCreated, editorDisposed,
           editorModel, editorLayout, contentHeight, display, clientHeight,
           localDisposables, disposed, cts, resolution, resolveCalls, closure,
           lastReport, lastOp >>

\* the value of an optional that is present
The(opt) == CHOOSE v \in opt : TRUE

\* an optional drawn from the set S
Optional(S) == {{}} \cup {{v} : v \in S}

\* ------------------------------------------------------------------------
\* The state as one record, so that a handler is a function on states.
\* `log` is the list of effects of the handler that is running.

Cur ==
    [ isEditing |-> isEditing, lineCount |-> lineCount, attached |-> attached,
      editor |-> editor, editorsCreated |-> editorsCreated,
      editorDisposed |-> editorDisposed, editorModel |-> editorModel,
      editorLayout |-> editorLayout, contentHeight |-> contentHeight,
      display |-> display, clientHeight |-> clientHeight,
      localDisposables |-> localDisposables, disposed |-> disposed, cts |-> cts,
      resolution |-> resolution, resolveCalls |-> resolveCalls,
      closure |-> closure, lastReport |-> lastReport, log |-> << >> ]

\* one effect of a handler: the call made and up to two numeric arguments
Ev(op, a, b) == [op |-> op, a |-> a, b |-> b]

Did(s, op, a, b) == [s EXCEPT !.log = Append(@, Ev(op, a, b))]

\* ------------------------------------------------------------------------
\* Calls on the collaborators

\* notebookEditor.layoutNotebookCell(viewCell, h)
layoutNotebookCell(s, h) ==
    Did([s EXCEPT !.lastReport = {h}], "layoutNotebookCell", h, 0)

\* viewCell.attachTextEditor(this.editor)
attachTextEditor(s) == Did([s EXCEPT !.attached = TRUE], "attachTextEditor", 0, 0)

\* viewCell.detachTextEditor()
detachTextEditor(s) == Did([s EXCEPT !.attached = FALSE], "detachTextEditor", 0, 0)

\* this.editor.focus()
focus(s) == Did(s, "focus", 0, 0)

\* this.editor.layout({ width: w, height: h })
layout(s, w, h) ==
    Did([s EXCEPT !.editorLayout = [width |-> w, height |-> h]], "layout", w, h)

\* this.localDisposables.add(d): a disposed DisposableStore does not keep d
add(s, kind) ==
    Did([s EXCEPT !.localDisposables = IF s.disposed THEN @ ELSE Append(@, kind)],
        kind, 0, 0)

\* this.localDisposables.clear()
clear(s) == Did([s EXCEPT !.localDisposables = << >>], "clear", 0, 0)

\* cellContainer.innerHTML = ''; renderedHTML = viewCell.getHTML();
\* if (renderedHTML) cellContainer.appendChild(renderedHTML)
\* An emptied container measures 0, a container holding the node measures the node.
renderPreview(s, html) ==
    Did([s EXCEPT !.clientHeight = IF html = {} THEN 0 ELSE The(html)],
        "render", IF html = {} THEN 0 ELSE The(html), 0)

\* does the subscription `kind` belong to this.localDisposables
Live(s, kind) == \E i \in 1..Len(s.localDisposables) : s.localDisposables[i] = kind

\* ------------------------------------------------------------------------
\* viewUpdate

Max(a, b) == IF a >= b THEN a ELSE b

\* notebookEditor.getFontInfo()?.lineHeight ?? 18
lineHeightOf(fontInfo) == IF fontInfo = {} THEN DefaultLineHeight ELSE The(fontInfo)

\* totalHeight without the Math.max(lineNum, 1) guard
totalHeight_NoMax(lineNum, fontInfo) ==
    lineNum * lineHeightOf(fontInfo) + EDITOR_TOP_PADDING + EDITOR_BOTTOM_PADDING

\* const totalHeight = Math.max(lineNum, 1) * lineHeight + EDITOR_TOP_PADDING + EDITOR_BOTTOM_PADDING
totalHeight(lineNum, fontInfo) ==
    Max(lineNum, 1) * lineHeightOf(fontInfo) + EDITOR_TOP_PADDING + EDITOR_BOTTOM_PADDING

\* width from the list dimension, else from the cell container
editingWidth(listDimension, clientWidth) ==
    IF listDimension # {}
        THEN The(listDimension) - CELL_MARGIN * 2
        ELSE clientWidth - ScrollbarAllowance

\* re-entry that resolves the text model again
reenterEditing_Reresolve(s, in) ==
    LET s1 == [s EXCEPT !.display = "block"]
        s2 == attachTextEditor(s1)
        s3 == Did([s2 EXCEPT !.resolution = "pending", !.resolveCalls = @ + 1],
                  "resolveTextModel", 0, 0)
    IN  IF in.activeCell THEN focus(s3) ELSE s3

\* "not first time, we don't need to create editor or bind listeners"
reenterEditing(s, in) ==
    LET s1 == [s EXCEPT !.display = "block"]
        s2 == attachTextEditor(s1)
    IN  IF in.activeCell THEN focus(s2) ELSE s2

\* first time in editing mode: create the widget, start the resolution of the
\* text model, bind the listeners and render the preview for its height
createEditor(s, in) ==
    LET w  == editingWidth(in.listDimension, in.clientWidth)
        th == totalHeight(s.lineCount, in.fontInfo)
        s1 == Did([s EXCEPT !.display = "block",
                            !.editor = "widget",
                            !.editorsCreated = @ + 1,
                            !.editorModel = FALSE,
                            !.contentHeight = NoModelContentHeight,
                            !.editorLayout = [width |-> w, height |-> th],
                            !.closure = [width |-> w, totalHeight |-> th]],
                  "createInstance", w, th)
        s2 == Did([s1 EXCEPT !.cts = "live",
                             !.resolution = "pending",
                             !.resolveCalls = @ + 1],
                  "resolveTextModel", 0, 0)
        s3 == add(s2, "onDidContentSizeChange")
        s4 == add(s3, "cellWidthResizeObserver")
        s5 == renderPreview(s4, in.html)
    IN  IF in.html # {} THEN add(s5, "onDidUpdateRender") ELSE s5

\* entering editing mode without the test of this.editor
enterEditing_AlwaysCreate(s, in) ==
    LET s1 == createEditor(s, in)
        s2 == layoutNotebookCell(s1,
                 totalHeight(s.lineCount, in.fontInfo) + ChromeHeight + s1.clientHeight)
    IN  focus(s2)

\* if (viewCell.isEditing) { ... }: switch to editing mode
enterEditing(s, in) ==
    LET s1 == IF s.editor # "null" THEN reenterEditing(s, in) ELSE createEditor(s, in)
        s2 == layoutNotebookCell(s1,
                 totalHeight(s.lineCount, in.fontInfo) + ChromeHeight + s1.clientHeight)
    IN  focus(s2)

\* the preview entry without hiding the editing container
enterPreview_NoHide(s, in) ==
    LET s1 == detachTextEditor(s)
    IN  IF s.editor # "null"
            THEN layoutNotebookCell(s1, s1.clientHeight)
            ELSE add(renderPreview(s1, in.html), "onDidUpdateRender")

\* else { ... }: switch to (or start in) the rendered preview
enterPreview(s, in) ==
    LET s1 == detachTextEditor(s)
        s2 == [s1 EXCEPT !.display = "none"]
    IN  IF s.editor # "null"
            THEN layoutNotebookCell(s2, s2.clientHeight)
            ELSE add(renderPreview(s2, in.html), "onDidUpdateRender")

viewUpdate(s, in) ==
    IF s.isEditing THEN enterEditing(s, in) ELSE enterPreview(s, in)

\* ------------------------------------------------------------------------
\* The continuation of the text resolution and the listeners

\* raceCancellation(promise, token): the value of the promise, or undefined
\* when the token was cancelled before the promise settled
raceCancellation(model, token) == IF token = "cancelled" THEN {} ELSE model

\* the continuation without `if (!model) { return; }`
resolveTextModelThen_NoGuard(s, model, in) ==
    LET s1 == Did([s EXCEPT !.editorModel = TRUE,
                            !.contentHeight = in.contentHeight],
                  "setModel", 0, 0)
        s2 == attachTextEditor(s1)
        s3 == IF in.activeCell THEN focus(s2) ELSE s2
        s4 == IF s3.contentHeight # s.closure.totalHeight
                  THEN layout(s3, s.closure.width, s3.contentHeight)
                  ELSE s3
        s5 == add(s4, "onDidChangeContent")
    IN  IF s.isEditing THEN focus(s5) ELSE s5

\* .then(model => { if (!model) { return; } ... })
resolveTextModelThen(s, model, in) ==
    IF model = {}
        THEN s
        ELSE
            LET s1 == Did([s EXCEPT !.editorModel = TRUE,
                                    !.contentHeight = in.contentHeight],
                          "setModel", 0, 0)
                s2 == attachTextEditor(s1)
                s3 == IF in.activeCell THEN focus(s2) ELSE s2
                realContentHeight == s3.contentHeight
                s4 == IF realContentHeight # s.closure.totalHeight
                          THEN layout(s3, s.closure.width, realContentHeight)
                          ELSE s3
                s5 == add(s4, "onDidChangeContent")
            IN  IF s.isEditing THEN focus(s5) ELSE s5

\* model.onDidChangeContent(() => { ... })
onDidChangeContent(s, in) ==
    LET s1 == Did([s EXCEPT !.lineCount = in.lines], "setText", in.lines, 0)
        s2 == renderPreview(s1, in.html)
        measured == IF in.html # {} THEN s2.clientHeight ELSE s.clientHeight
    IN  layoutNotebookCell(s2, s2.contentHeight + ChromeHeight + measured)

\* the listener without the test of e.contentHeightChanged
onDidContentSizeChange_Unguarded(s, in) ==
    layoutNotebookCell(layout(s, s.editorLayout.width, in.contentHeight),
                       in.contentHeight + ChromeHeight + s.clientHeight)

\* this.editor.onDidContentSizeChange(e => { ... })
onDidContentSizeChange(s, in) ==
    LET viewLayout == s.editorLayout
    IN  IF in.contentHeightChanged
            THEN layoutNotebookCell(layout(s, viewLayout.width, in.contentHeight),
                                    in.contentHeight + ChromeHeight + s.clientHeight)
            ELSE s

\* the callback of getResizesObserver(templateData.editingContainer, ...)
onResize(s, in) == layout(s, in.width, s.contentHeight)

\* markdownRenderer.onDidUpdateRender(() => { ... })
onDidUpdateRender(s) == layoutNotebookCell(s, s.clientHeight)

\* the listener without this.localDisposables.clear()
onDidChangeEditingState_NoClear(s, in) == viewUpdate(s, in)

\* viewCell.onDidChangeEditingState(() => { this.localDisposables.clear(); viewUpdate(); })
onDidChangeEditingState(s, in) == viewUpdate(clear(s), in)

\* dispose() where the disposer of cts was never registered
dispose_NoCancel(s) ==
    LET s1 == detachTextEditor(s)
    IN  Did([s1 EXCEPT !.localDisposables = << >>, !.disposed = TRUE],
            "super.dispose", 0, 0)

\* dispose() that detaches only while the cell is being edited
dispose_DetachWhenEditing(s) ==
    LET s1 == IF s.isEditing THEN detachTextEditor(s) ELSE s
    IN  Did([s1 EXCEPT !.localDisposables = << >>,
                       !.cts = IF @ = "live" THEN "cancelled" ELSE @,
                       !.disposed = TRUE],
            "super.dispose", 0, 0)

\* dispose() { this.viewCell.detachTextEditor(); super.dispose(); }
\* super.dispose() disposes what was registered: this.localDisposables, the
\* disposer of cts (cts.dispose(true) cancels) and the editing-state listener
dispose(s) ==
    LET s1 == detachTextEditor(s)
    IN  Did([s1 EXCEPT !.localDisposables = << >>,
                       !.cts = IF @ = "live" THEN "cancelled" ELSE @,
                       !.disposed = TRUE],
            "super.dispose", 0, 0)

\* ------------------------------------------------------------------------
\* Inputs of the handlers: what they read from the host, the cell and the editor

NoIn ==
    [ flag |-> FALSE, listDimension |-> {}, clientWidth |-> 0, fontInfo |-> {},
      activeCell |-> FALSE, html |-> {}, model |-> {}, contentHeight |-> 0,
      contentHeightChanged |-> FALSE, width |-> 0, lines |-> 0 ]

\* what viewUpdate reads when it runs with the flag `flag` and the editor `ed`:
\* the geometry and the rendered markdown only when it creates the editor, the
\* active cell only when it re-enters editing, the rendered markdown also in
\* the first preview, the font info whenever it enters editing
ViewInputs(flag, ed) ==
    { [NoIn EXCEPT !.listDimension = ld, !.clientWidth = cw, !.fontInfo = fi,
                   !.activeCell = ac, !.html = h] :
        ld \in IF flag /\ ed = "null" THEN Optional(ListWidths) ELSE {{}},
        cw \in IF flag /\ ed = "null" THEN ClientWidths ELSE {0},
        fi \in IF flag THEN Optional(LineHeights) ELSE {{}},
        ac \in IF flag /\ ed # "null" THEN BOOLEAN ELSE {FALSE},
        h  \in IF ed = "null" THEN Optional(PreviewHeights) ELSE {{}} }

\* the fields of a controller before its constructor has run viewUpdate
Constructed(flag, lines) ==
    [ isEditing |-> flag, lineCount |-> lines, attached |-> FALSE,
      editor |-> "null", editorsCreated |-> 0, editorDisposed |-> FALSE,
      editorModel |-> FALSE, editorLayout |-> [width |-> 0, height |-> 0],
      contentHeight |-> NoModelContentHeight, display |-> "", clientHeight |-> 0,
      localDisposables |-> << >>, disposed |-> FALSE, cts |-> "none",
      resolution |-> "none", resolveCalls |-> 0,
      closure |-> [width |-> 0, totalHeight |-> 0], lastReport |-> {}, log |-> << >> ]

\* the variables hold the state r reached by the handler `name` run on input `in`
Holds(r, name, in) ==
    /\ isEditing = r.isEditing
    /\ lineCount = r.lineCount
    /\ attached = r.attached
    /\ editor = r.editor
    /\ editorsCreated = r.editorsCreated
    /\ editorDisposed = r.editorDisposed
    /\ editorModel = r.editorModel
    /\ editorLayout = r.editorLayout
    /\ contentHeight = r.contentHeight
    /\ display = r.display
    /\ clientHeight = r.clientHeight
    /\ localDisposables = r.localDisposables
    /\ disposed = r.disposed
    /\ cts = r.cts
    /\ resolution = r.resolution
    /\ resolveCalls = r.resolveCalls
    /\ closure = r.closure
    /\ lastReport = r.lastReport
    /\ lastOp = [name |-> name, in |-> in, log |-> r.log]

Becomes(r, name, in) ==
    /\ isEditing' = r.isEditing
    /\ lineCount' = r.lineCount
    /\ attached' = r.attached
    /\ editor' = r.editor
    /\ editorsCreated' = r.editorsCreated
    /\ editorDisposed' = r.editorDisposed
    /\ editorModel' = r.editorModel
    /\ editorLayout' = r.editorLayout
    /\ contentHeight' = r.contentHeight
    /\ display' = r.display
    /\ clientHeight' = r.clientHeight
    /\ localDisposables' = r.localDisposables
    /\ disposed' = r.disposed
    /\ cts' = r.cts
    /\ resolution' = r.resolution
    /\ resolveCalls' = r.resolveCalls
    /\ closure' = r.closure
    /\ lastReport' = r.lastReport
    /\ lastOp' = [name |-> name, in |-> in, log |-> r.log]

\* ------------------------------------------------------------------------
\* Init: the controller as its constructor leaves it (viewUpdate has run once)

Init ==
    \E flag \in BOOLEAN, lines \in 0..MaxLines :
      \E in \in ViewInputs(flag, "null") :
        Holds(viewUpdate(Constructed(flag, lines), in), "constructor",
              [in EXCEPT !.flag = flag])

\* ------------------------------------------------------------------------
\* Actions

\* the editing-state listener was not registered with the controller, so it
\* still runs after dispose()
ChangeEditingState_AfterDispose ==
    \E flag \in BOOLEAN :
      \E in \in ViewInputs(flag, editor) :
        LET s == [Cur EXCEPT !.isEditing = flag]
        IN  Becomes(onDidChangeEditingState(s, in),
                    "onDidChangeEditingState", [in EXCEPT !.flag = flag])

\* viewCell.isEditing is set to flag and the cell fires onDidChangeEditingState;
\* the listener is gone once the controller is disposed
ChangeEditingState ==
    \E flag \in BOOLEAN :
      \E in \in IF disposed THEN {NoIn} ELSE ViewInputs(flag, editor) :
        LET s == [Cur EXCEPT !.isEditing = flag]
        IN  Becomes(IF disposed THEN s ELSE onDidChangeEditingState(s, in),
                    "onDidChangeEditingState", [in EXCEPT !.flag = flag])

\* the promise of resolveTextModel() settles, with a text model or with none
ResolveTextModelThen ==
    /\ resolution = "pending"
    /\ \E model \in Optional({1}), ac \in BOOLEAN, ch \in ContentHeights :
        LET in == [NoIn EXCEPT !.model = model, !.activeCell = ac, !.contentHeight = ch]
            s  == [Cur EXCEPT !.resolution = "settled"]
        IN  Becomes(resolveTextModelThen(s, raceCancellation(model, cts), in),
                    "resolveTextModel.then", in)

\* the text of the model changes
ChangeContent ==
    /\ editorModel
    /\ \E lines \in 1..MaxLines, h \in Optional(PreviewHeights) :
        LET in == [NoIn EXCEPT !.lines = lines, !.html = h]
        IN  Becomes(IF Live(Cur, "onDidChangeContent")
                        THEN onDidChangeContent(Cur, in) ELSE Cur,
                    "onDidChangeContent", in)

\* the content size of the editor changes, in height or otherwise
ChangeContentSize ==
    /\ editor # "null"
    /\ \E changed \in BOOLEAN, ch \in ContentHeights :
        /\ changed => editorModel /\ ch # contentHeight
        /\ ~changed => ch = CHOOSE c \in ContentHeights : TRUE
        /\ LET in == [NoIn EXCEPT !.contentHeightChanged = changed,
                                  !.contentHeight = IF changed THEN ch ELSE contentHeight]
               s  == [Cur EXCEPT !.contentHeight = in.contentHeight]
           IN  Becomes(IF Live(Cur, "onDidContentSizeChange")
                           THEN onDidContentSizeChange(s, in) ELSE s,
                       "onDidContentSizeChange", in)

\* the editing container is resized
Resize ==
    /\ editor # "null"
    /\ \E w \in ObservedWidths :
        LET in == [NoIn EXCEPT !.width = w]
        IN  Becomes(IF Live(Cur, "cellWidthResizeObserver") THEN onResize(Cur, in) ELSE Cur,
                    "onResize", in)

\* the markdown renderer updates the rendered node (an image has loaded)
UpdateRender ==
    /\ clientHeight # 0
    /\ \E h \in PreviewHeights :
        LET in == [NoIn EXCEPT !.html = {h}]
            s  == [Cur EXCEPT !.clientHeight = h]
        IN  Becomes(IF Live(Cur, "onDidUpdateRender") THEN onDidUpdateRender(s) ELSE s,
                    "onDidUpdateRender", in)

\* the host disposes the controller
Dispose ==
    /\ Becomes(dispose(Cur), "dispose", NoIn)

Next ==
    \/ ChangeEditingState
    \/ ResolveTextModelThen
    \/ ChangeContent
    \/ ChangeContentSize
    \/ Resize
    \/ UpdateRender
    \/ Dispose

Spec == Init /\ [][Next]_vars

\* ------------------------------------------------------------------------
\* Properties

\* the heights reported to the host by the handler that ran last, in order
Reports(log) == SelectSeq(log, LAMBDA e : e.op = "layoutNotebookCell")

\* how often the handler that ran last made the call op
Count(log, op) == Cardinality({i \in 1..Len(log) : log[i].op = op})

\* viewUpdate ran in the handler that ran last
ViewUpdateRan ==
    \/ lastOp.name = "constructor"
    \/ lastOp.name = "onDidChangeEditingState" /\ ~disposed

\* C1: a controller creates no CodeEditorWidget or exactly one.  The count is 0
\* exactly while this.editor is unset, it only moves from 0 to 1, and it does
\* so only in a viewUpdate that observes the editing flag set.
C1_AtMostOneEditSurface ==
    /\ [](/\ editorsCreated \in {0, 1}
          /\ editorsCreated = 0 <=> editor = "null"
          /\ lastOp.name = "constructor" /\ ~isEditing => editorsCreated = 0)
    /\ [][editorsCreated' # editorsCreated =>
             /\ editor = "null" /\ editorsCreated' = 1
             /\ lastOp'.name = "onDidChangeEditingState" /\ isEditing']_vars

\* C1 witness: the editing flag is observed set again after the widget exists
C1_Witness ==
    /\ lastOp.name = "onDidChangeEditingState" /\ ~disposed /\ isEditing
    /\ Count(lastOp.log, "createInstance") = 0
    /\ editorsCreated = 1

\* C2: when the flag is false at the time the pending resolution completes
\* (the cell went back to the preview in between), the continuation does
\* nothing: no setModel, no attach, no focus, no subscription, no report.
C2_SupersededResolutionInert ==
    lastOp.name = "resolveTextModel.then" /\ ~isEditing => lastOp.log = << >>

\* C3: re-entering editing mode with an existing widget attaches that widget
\* again and starts no resolution; resolveTextModel is called at most once.
C3_ReenterReattaches ==
    /\ [](resolveCalls <= 1 /\ resolveCalls = editorsCreated)
    /\ [][(/\ editor = "widget" /\ ~disposed
           /\ lastOp'.name = "onDidChangeEditingState" /\ isEditing') =>
             /\ attached' /\ display' = "block"
             /\ editor' = editor /\ editorsCreated' = editorsCreated
             /\ resolveCalls' = resolveCalls /\ resolution' = resolution
             /\ Count(lastOp'.log, "attachTextEditor") = 1
             /\ Count(lastOp'.log, "resolveTextModel") = 0]_vars

\* C3 witness: editing is re-entered after a session in which the model was bound
C3_Witness ==
    /\ lastOp.name = "onDidChangeEditingState" /\ ~disposed /\ isEditing
    /\ editorModel /\ attached /\ resolveCalls = 1
    /\ Count(lastOp.log, "attachTextEditor") = 1

\* C4: disposing while the resolution is pending cancels the token, and the
\* continuation of a resolution that completes after the disposal changes nothing.
C4_DisposeCancelsResolution ==
    /\ [][resolution = "pending" /\ lastOp'.name = "dispose" => cts' = "cancelled"]_vars
    /\ [][(disposed /\ resolution = "pending" /\ resolution' # resolution) =>
             /\ lastOp'.log = << >>
             /\ UNCHANGED << isEditing, lineCount, attached, editor, editorsCreated,
                             editorDisposed, editorModel, editorLayout, contentHeight,
                             display, clientHeight, localDisposables, disposed, cts,
                             resolveCalls, closure, lastReport >>]_vars

\* C4 witness: a resolution that yields a model completes after the disposal
C4_Witness ==
    /\ lastOp.name = "resolveTextModel.then" /\ disposed
    /\ lastOp.in.model # {} /\ cts = "cancelled"

\* C5: once the controller is disposed, the widget is absent or disposed.
C5_EditSurfaceDisposedWithController ==
    disposed => editor = "null" \/ editorDisposed

\* C6: dispose() detaches exactly once, first, whatever the mode and the slot;
\* afterwards the slot and this.localDisposables are empty and stay empty.
C6_DisposeDetaches ==
    /\ lastOp.name = "dispose" =>
           lastOp.log = << Ev("detachTextEditor", 0, 0), Ev("super.dispose", 0, 0) >>
    /\ disposed => ~attached /\ localDisposables = << >> /\ cts # "live"

\* C6 witness: disposed in the preview of a cell whose widget has a model
C6_Witness ==
    lastOp.name = "dispose" /\ ~isEditing /\ editorModel /\ display = "none"

\* C7: a preview entry without a widget renders the preview once and reports
\* the measured height of the preview container exactly once.
C7_FirstPreviewReportsHeight ==
    ViewUpdateRan /\ ~isEditing /\ editor = "null" =>
        /\ Count(lastOp.log, "render") = 1
        /\ Reports(lastOp.log) = << Ev("layoutNotebookCell", clientHeight, 0) >>

\* C8: every entry into editing mode reports exactly once, and reports
\* max(lineCount, 1) * lineHeight + padding + 32 + the measured preview height,
\* with the line height 18 when the host has no font info.
C8_EditingEntryHeight ==
    ViewUpdateRan /\ isEditing =>
        LET lh == IF lastOp.in.fontInfo = {} THEN 18 ELSE The(lastOp.in.fontInfo)
            n  == IF lineCount < 1 THEN 1 ELSE lineCount
            h  == n * lh + EDITOR_TOP_PADDING + EDITOR_BOTTOM_PADDING + 32 + clientHeight
        IN  /\ Reports(lastOp.log) = << Ev("layoutNotebookCell", h, 0) >>
            /\ lastReport = {h}

\* C8 witness: re-entry with an empty cell and no font info
C8_Witness ==
    /\ lastOp.name = "onDidChangeEditingState" /\ ~disposed /\ isEditing
    /\ Count(lastOp.log, "createInstance") = 0
    /\ lineCount = 0 /\ lastOp.in.fontInfo = {}

\* C9: when the resolution completes in the undisturbed first editing session
\* and the content height differs from the computed height, the widget is laid
\* out to the content height and the host has been told
\* content height + 32 + preview height.
C9_ResolvedHeightReported ==
    (/\ lastOp.name = "resolveTextModel.then" /\ lastOp.in.model # {}
     /\ isEditing /\ ~disposed /\ Live(Cur, "onDidContentSizeChange")
     /\ contentHeight # closure.totalHeight) =>
        /\ editorLayout.height = contentHeight
        /\ lastReport = {contentHeight + ChromeHeight + clientHeight}

\* C10: the content-size listener does nothing when the content height did not
\* change; when it changed it lays the widget out to the new content height at
\* the width it has and reports new content height + 32 + preview height.
C10_ContentSizeListener ==
    [][(lastOp'.name = "onDidContentSizeChange" /\ Live(Cur, "onDidContentSizeChange")) =>
          IF lastOp'.in.contentHeightChanged
              THEN /\ editorLayout' = [width |-> editorLayout.width,
                                       height |-> lastOp'.in.contentHeight]
                   /\ lastReport' = {lastOp'.in.contentHeight + 32 + clientHeight}
                   /\ lastOp'.log =
                        << Ev("layout", editorLayout.width, lastOp'.in.contentHeight),
                           Ev("layoutNotebookCell",
                              lastOp'.in.contentHeight + 32 + clientHeight, 0) >>
              ELSE /\ lastOp'.log = << >>
                   /\ UNCHANGED << isEditing, lineCount, attached, editor, editorsCreated,
                                   editorDisposed, editorModel, editorLayout,
                                   contentHeight, display, clientHeight,
                                   localDisposables, disposed, cts, resolution,
                                   resolveCalls, closure, lastReport >>]_vars

\* C10 witness: the listener has handled a change of the content height after
\* the editing container was resized
C10_Witness ==
    /\ lastOp.name = "onDidContentSizeChange" /\ lastOp.in.contentHeightChanged
    /\ Len(lastOp.log) = 2
    /\ editorLayout.width \in ObservedWidths

\* everything but the editing flag and the record of the last handler
controllerState ==
    << lineCount, attached, editor, editorsCreated, editorDisposed, editorModel,
       editorLayout, contentHeight, display, clientHeight, localDisposables,
       disposed, cts, resolution, resolveCalls, closure, lastReport >>

\* C11: two preview entries in a row (no editing entry in between) report the
\* same heights when the preview container measures the same, and leave
\* this.localDisposables with the same number of members; the number of
\* members never exceeds 4.
C11_PreviewEntryIdempotent ==
    /\ [](Len(localDisposables) <= 4)
    /\ [][(/\ ViewUpdateRan /\ ~isEditing
           /\ lastOp'.name = "onDidChangeEditingState" /\ ~isEditing') =>
             /\ Len(localDisposables') = Len(localDisposables)
             /\ clientHeight' = clientHeight =>
                    Reports(lastOp'.log) = Reports(lastOp.log)]_vars

\* C11 witness: a notification with the flag false handled by a controller
\* that has only ever been in the preview
C11_Witness ==
    /\ lastOp.name = "onDidChangeEditingState" /\ ~disposed /\ ~isEditing
    /\ editor = "null" /\ Len(localDisposables) = 1

\* C12: the listener clears this.localDisposables before anything else, and in
\* the preview no subscription of the editing session is a member of it.
C12_NoEditingSubscriptionInPreview ==
    /\ lastOp.name = "onDidChangeEditingState" /\ ~disposed =>
           lastOp.log[1] = Ev("clear", 0, 0)
    /\ ~isEditing =>
           /\ ~Live(Cur, "onDidChangeContent")
           /\ ~Live(Cur, "onDidContentSizeChange")
           /\ ~Live(Cur, "cellWidthResizeObserver")

\* C13: a change of the editing flag after dispose() is not handled: nothing
\* but the flag changes.
C13_NoTransitionAfterDispose ==
    [][disposed /\ lastOp'.name = "onDidChangeEditingState" =>
          /\ lastOp'.log = << >>
          /\ UNCHANGED controllerState]_vars

\* C13 witness: the flag was set after the disposal of a controller that never
\* created a widget
C13_Witness ==
    /\ lastOp.name = "onDidChangeEditingState" /\ disposed
    /\ isEditing /\ editor = "null" /\ display = "none"

\* C14: after the constructor and after every handled notification the editing
\* container is shown, with a widget in it, iff the flag is set, and hidden iff
\* it is not; the widget is absent, present and hidden, or present and shown.
C14_PresentationMatchesFlag ==
    /\ ViewUpdateRan =>
           /\ isEditing <=> (display = "block" /\ editor = "widget")
           /\ ~isEditing <=> display = "none"
    /\ editor \in {"null", "widget"} /\ display \in {"block", "none"}
    /\ editor = "null" => display = "none"

\* C14 witness: the preview was entered with a widget present (present and hidden)
C14_Witness ==
    /\ lastOp.name = "onDidChangeEditingState" /\ ~disposed
    /\ ~isEditing /\ editor = "widget" /\ display = "none"

\* C15: a resolution that yields no model changes nothing.
C15_NoModelAborts ==
    [][(/\ resolution = "pending" /\ lastOp'.name = "resolveTextModel.then"
        /\ lastOp'.in.model = {} /\ resolution' = "settled") =>
          /\ lastOp'.log = << >>
          /\ isEditing' = isEditing
          /\ UNCHANGED << lineCount, attached, editor, editorsCreated, editorDisposed,
                          editorModel, editorLayout, contentHeight, display,
                          clientHeight, localDisposables, disposed, cts,
                          resolveCalls, closure, lastReport >>]_vars

\* C15 witness: the resolution yielded no model while the cell was being edited
C15_Witness ==
    /\ lastOp.name = "resolveTextModel.then" /\ lastOp.in.model = {}
    /\ ~disposed /\ isEditing /\ ~editorModel /\ resolution = "settled"

\* C16: the content-change listener first calls setText, then renders the
\* preview, then reports content height + 32 + the height the preview
\* container measures after that render.
C16_ContentChangeReports ==
    lastOp.name = "onDidChangeContent" /\ Live(Cur, "onDidChangeContent") =>
        /\ Len(lastOp.log) = 3
        /\ lastOp.log[1] = Ev("setText", lastOp.in.lines, 0)
        /\ lastOp.log[2].op = "render"
        /\ lastOp.log[3] =
              Ev("layoutNotebookCell", contentHeight + 32 + clientHeight, 0)
        /\ lineCount = lastOp.in.lines

\* C17: while the cell is being edited and the widget has its model, the
\* content-change subscription is live, so every change of the text calls setText.
C17_EditsReachCellModel ==
    /\ isEditing /\ editorModel /\ ~disposed => Live(Cur, "onDidChangeContent")
    /\ lastOp.name = "onDidChangeContent" /\ isEditing /\ ~disposed =>
           Count(lastOp.log, "setText") = 1

\* C18: every height reported while the cell is being edited includes the
\* height of the editor and the 32 of chrome on top of the preview height.
C18_EditingReportsIncludeEditor ==
    isEditing =>
        \A i \in 1..Len(lastOp.log) :
            lastOp.log[i].op = "layoutNotebookCell" =>
                lastOp.log[i].a > 32 + clientHeight

\* C19: while the cell is being edited, a change of the content height lays the
\* widget out and reports a height, and a resize of the editing container lays
\* the widget out to the new width at the content height.
C19_LayoutFeedbackLive ==
    isEditing /\ ~disposed =>
        /\ (lastOp.name = "onDidContentSizeChange" /\ lastOp.in.contentHeightChanged) =>
               /\ editorLayout.height = lastOp.in.contentHeight
               /\ Reports(lastOp.log) =
                     << Ev("layoutNotebookCell",
                           lastOp.in.contentHeight + 32 + clientHeight, 0) >>
        /\ lastOp.name = "onResize" =>
               editorLayout = [width |-> lastOp.in.width, height |-> contentHeight]

====
